---- MODULE Spec2Model ----
(***************************************************************************)
(* Model of the concurrent directory scanner of viber (src/main.go):       *)
(* NewScanner, FileScanner.ScanForAI with its worker goroutines, the       *)
(* bounded channel pathsChan and the WaitGroup.                            *)
(*                                                                         *)
(* Strings are sequences of one-character strings, so that filepath.Ext,   *)
(* filepath.Match, filepath.Join and strings.TrimSpace are computed and    *)
(* not assumed.                                                            *)
(***************************************************************************)
EXTENDS Integers, Sequences, FiniteSets, Bags, TLC

\* ------------------------------------------------------------------ bounds
\* Largest workerCount handed to ScanForAI.
MaxWorkers == 2
\* Largest number of tree entries whose read (os.ReadFile / ReadDir) fails.
MaxBad == 2
\* Largest number of lines, and of characters in a line, of the generated
\* ignore files.
MaxLines == 2
MaxLineLen == 2

\* Capacity of pathsChan: make(chan string, 100).
QueueCap == 100

\* len(frames) in playSpinner.
NumFrames == 10

\* The nil error; an error value names the failed operation and its path.
Nil == [op |-> "nil", path |-> <<>>]

\* ----------------------------------------------------------------- strings
\* The characters used, in byte order (strings compare bytewise in Go).
AsciiOrder ==
  << " ", "#", "*", "-", ".", "/", "?", "[", "\\", "]", "^", "_",
     "a", "b", "c", "d", "e", "f", "g", "h", "i", "j", "k", "l", "m",
     "n", "o", "p", "q", "r", "s", "t", "u", "v", "w", "x", "y", "z" >>

Code(c) == CHOOSE i \in 1..Len(AsciiOrder) : AsciiOrder[i] = c

Last(s) == s[Len(s)]

\* strings.Compare(a, b) < 0, the order os.ReadDir sorts directory entries by.
RECURSIVE StrLess(_, _)
StrLess(a, b) ==
  IF a = <<>> THEN b # <<>>
  ELSE IF b = <<>> THEN FALSE
  ELSE IF Head(a) = Head(b) THEN StrLess(Tail(a), Tail(b))
  ELSE Code(Head(a)) < Code(Head(b))

\* strings.HasPrefix(s, prefix)
HasPrefix(s, prefix) ==
  Len(s) >= Len(prefix) /\ SubSeq(s, 1, Len(prefix)) = prefix

\* unicode.IsSpace: the white space of Latin-1 ('\t', '\n', '\v', '\f',
\* '\r', ' ', U+0085, U+00A0) and the other code points with the property
\* White_Space. A character that cannot be written in a string is the
\* one-element string of its name.
WhiteSpace ==
  { " ", "\t", "\n", "\r", "\f", "\\v", "U+0085", "U+00A0",
    "U+1680", "U+2000", "U+2001", "U+2002", "U+2003", "U+2004", "U+2005",
    "U+2006", "U+2007", "U+2008", "U+2009", "U+200A", "U+2028", "U+2029",
    "U+202F", "U+205F", "U+3000" }

\* strings.TrimSpace(s): leading and trailing white space removed.
RECURSIVE TrimLeft(_)
TrimLeft(s) ==
  IF s # <<>> /\ Head(s) \in WhiteSpace THEN TrimLeft(Tail(s)) ELSE s

RECURSIVE TrimRight(_)
TrimRight(s) ==
  IF s # <<>> /\ Last(s) \in WhiteSpace
  THEN TrimRight(SubSeq(s, 1, Len(s) - 1))
  ELSE s

TrimSpace(s) == TrimRight(TrimLeft(s))

\* filepath.Ext(path): the suffix beginning at the final dot in the final
\* element of path; empty if there is no dot.
RECURSIVE ExtFrom(_, _)
ExtFrom(path, i) ==
  IF i < 1 \/ path[i] = "/" THEN <<>>
  ELSE IF path[i] = "." THEN SubSeq(path, i, Len(path))
  ELSE ExtFrom(path, i - 1)

Ext(path) == ExtFrom(path, Len(path))

\* The elements of a path: its maximal runs of characters other than '/'.
RECURSIVE Elements(_, _)
Elements(path, cur) ==
  IF path = <<>> THEN (IF cur = <<>> THEN <<>> ELSE <<cur>>)
  ELSE IF Head(path) = "/"
  THEN (IF cur = <<>> THEN <<>> ELSE <<cur>>) \o Elements(Tail(path), <<>>)
  ELSE Elements(Tail(path), Append(cur, Head(path)))

\* filepath.Clean on the elements: "." is dropped, ".." takes away the
\* element before it, stays when there is none to take (path not rooted)
\* and is dropped at the root.
RECURSIVE CleanElements(_, _, _)
CleanElements(elems, out, rooted) ==
  IF elems = <<>> THEN out
  ELSE LET e == Head(elems)
       IN  IF e = <<".">> THEN CleanElements(Tail(elems), out, rooted)
           ELSE IF e = <<".", ".">>
           THEN IF out # <<>> /\ Last(out) # <<".", ".">>
                THEN CleanElements(Tail(elems),
                                   SubSeq(out, 1, Len(out) - 1), rooted)
                ELSE IF rooted THEN CleanElements(Tail(elems), out, rooted)
                ELSE CleanElements(Tail(elems), Append(out, e), rooted)
           ELSE CleanElements(Tail(elems), Append(out, e), rooted)

RECURSIVE JoinElements(_)
JoinElements(elems) ==
  IF elems = <<>> THEN <<>>
  ELSE IF Len(elems) = 1 THEN elems[1]
  ELSE elems[1] \o <<"/">> \o JoinElements(Tail(elems))

\* filepath.Clean(path)
Clean(path) ==
  IF path = <<>> THEN <<".">>
  ELSE LET rooted == Head(path) = "/"
           body   == JoinElements(
                       CleanElements(Elements(path, <<>>), <<>>, rooted))
       IN  IF rooted THEN <<"/">> \o body
           ELSE IF body = <<>> THEN <<".">> ELSE body

\* filepath.Join(dir, name): the non-empty arguments joined by '/', cleaned.
Join(dir, name) ==
  IF dir = <<>> THEN (IF name = <<>> THEN <<>> ELSE Clean(name))
  ELSE IF name = <<>> THEN Clean(dir)
  ELSE Clean(dir \o <<"/">> \o name)

\* The name os.Lstat reports for a path: trailing slashes removed, then
\* what follows the last slash.
RECURSIVE StripSlashes(_)
StripSlashes(name) ==
  IF Len(name) > 1 /\ Last(name) = "/"
  THEN StripSlashes(SubSeq(name, 1, Len(name) - 1))
  ELSE name

Basename(name) ==
  LET n       == StripSlashes(name)
      slashes == { k \in 1..(Len(n) - 1) : n[k] = "/" }
  IN  IF slashes = {} THEN n
      ELSE SubSeq(n, (CHOOSE k \in slashes : \A j \in slashes : j <= k) + 1,
                  Len(n))

\* ---------------------------------------------------------- filepath.Match
BadClass == [ok |-> FALSE, r |-> "", match |-> FALSE, rest |-> <<>>]

\* getEsc: one (possibly escaped) character of a character class.
GetEsc(chunk) ==
  IF chunk = <<>> \/ Head(chunk) = "-" \/ Head(chunk) = "]" THEN BadClass
  ELSE LET c1 == IF Head(chunk) = "\\" THEN Tail(chunk) ELSE chunk
       IN  IF c1 = <<>> \/ Tail(c1) = <<>> THEN BadClass
           ELSE [ok |-> TRUE, r |-> Head(c1), match |-> FALSE, rest |-> Tail(c1)]

\* The ranges of a character class, up to its closing bracket.
RECURSIVE ClassScan(_, _, _, _)
ClassScan(chunk, c, nrange, match) ==
  IF chunk # <<>> /\ Head(chunk) = "]" /\ nrange > 0
  THEN [ok |-> TRUE, r |-> "", match |-> match, rest |-> Tail(chunk)]
  ELSE LET lo == GetEsc(chunk)
       IN  IF ~lo.ok THEN BadClass
           ELSE IF Head(lo.rest) = "-"
           THEN LET hi == GetEsc(Tail(lo.rest))
                IN  IF ~hi.ok THEN BadClass
                    ELSE ClassScan(hi.rest, c, nrange + 1,
                           match \/ (Code(lo.r) <= Code(c) /\ Code(c) <= Code(hi.r)))
           ELSE ClassScan(lo.rest, c, nrange + 1, match \/ lo.r = c)

\* matched of filepath.Match(pattern, name); a malformed pattern yields
\* ErrBadPattern with matched = false, and the caller drops the error.
RECURSIVE Match(_, _)
Match(p, s) ==
  IF p = <<>> THEN s = <<>>
  ELSE IF Head(p) = "*"
  THEN Match(Tail(p), s) \/ (s # <<>> /\ Head(s) # "/" /\ Match(p, Tail(s)))
  ELSE IF Head(p) = "["
  THEN /\ s # <<>>
       /\ LET neg  == Tail(p) # <<>> /\ Head(Tail(p)) = "^"
              body == IF neg THEN Tail(Tail(p)) ELSE Tail(p)
              cl   == ClassScan(body, Head(s), 0, FALSE)
          IN  cl.ok /\ (cl.match # neg) /\ Match(cl.rest, Tail(s))
  ELSE IF Head(p) = "?"
  THEN s # <<>> /\ Head(s) # "/" /\ Match(Tail(p), Tail(s))
  ELSE IF Head(p) = "\\"
  THEN /\ Tail(p) # <<>>
       /\ s # <<>>
       /\ Head(Tail(p)) = Head(s)
       /\ Match(Tail(Tail(p)), Tail(s))
  ELSE s # <<>> /\ Head(p) = Head(s) /\ Match(Tail(p), Tail(s))

\* -------------------------------------------------------------- file names
dot     == << "." >>
dotgit  == << ".", "g", "i", "t" >>
nodemod == << "n", "o", "d", "e", "_", "m", "o", "d", "u", "l", "e", "s" >>
rdir    == << "r" >>
dot_src == << ".", "/", "s", "r", "c" >>
r_slash == << "r", "/" >>
dot_nodemod == << ".", "/" >> \o nodemod
sub_dotgit  == << "s", "u", "b", "/", ".", "g", "i", "t" >>
sub     == << "s", "u", "b" >>
lib_ts  == << "l", "i", "b", ".", "t", "s" >>
a_go    == << "a", ".", "g", "o" >>
b_txt   == << "b", ".", "t", "x", "t" >>
c_go    == << "c", ".", "g", "o" >>
d_go    == << "d", ".", "g", "o" >>
h_go    == << "h", ".", "g", "o" >>
m_go    == << "m", ".", "g", "o" >>
x_go    == << "x", ".", "g", "o" >>
z_ts    == << "z", ".", "t", "s" >>
mk      == << "m", "k" >>

ext_go     == << ".", "g", "o" >>
ext_ts     == << ".", "t", "s" >>
ext_svelte == << ".", "s", "v", "e", "l", "t", "e" >>
ext_html   == << ".", "h", "t", "m", "l" >>
ext_sql    == << ".", "s", "q", "l" >>

\* ------------------------------------------------------------ directory tree
\* A tree is a set of entries; an entry is named by the names on the way to
\* it from the root handed to the scanner (names[1] is the root as given).
\* ok: the entry can be read (os.ReadFile for a file, ReadDir for a directory).
Dir(names) == [names |-> names, isDir |-> TRUE, ok |-> TRUE, content |-> ""]
File(names, content) ==
  [names |-> names, isDir |-> FALSE, ok |-> TRUE, content |-> content]

\* The example tree of the specification, scanned as ".".
TreeExample ==
  { Dir(<<dot>>),
    File(<<dot, a_go>>, "A"),
    File(<<dot, b_txt>>, "B"),
    Dir(<<dot, sub>>),
    Dir(<<dot, sub, dotgit>>),
    File(<<dot, sub, dotgit, c_go>>, "C"),
    File(<<dot, sub, d_go>>, "D") }

\* A directory with a dot in its name, a file without extension, and
\* node_modules, scanned as "r".
TreeLib ==
  { Dir(<<rdir>>),
    Dir(<<rdir, lib_ts>>),
    File(<<rdir, lib_ts, m_go>>, "M"),
    File(<<rdir, lib_ts, mk>>, "K"),
    Dir(<<rdir, nodemod>>),
    File(<<rdir, nodemod, x_go>>, "X"),
    File(<<rdir, d_go>>, "D"),
    File(<<rdir, z_ts>>, "Z") }

\* The root itself carries an ignored name.
TreeGitRoot == { Dir(<<dotgit>>), File(<<dotgit, h_go>>, "H") }

\* The root is a regular file.
TreeFileRoot == { File(<<m_go>>, "M") }

\* Several accepted files, two of them with the same base name.
TreeWide ==
  { Dir(<<rdir>>),
    File(<<rdir, a_go>>, "A"),
    File(<<rdir, c_go>>, "C"),
    Dir(<<rdir, sub>>),
    File(<<rdir, sub, a_go>>, "A"),
    File(<<rdir, sub, h_go>>, "H") }

\* One directory with two more accepted files than pathsChan can buffer:
\* one worker holding a path and a full buffer leave the walk one to push.
Letters == SubSeq(AsciiOrder, 13, 38)

BigName(k) ==
  << Letters[(k \div 26) + 1], Letters[(k % 26) + 1], ".", "g", "o" >>

TreeBig ==
  { Dir(<<rdir>>) } \cup { File(<<rdir, BigName(k)>>, "F") : k \in 0..(QueueCap + 1) }

\* Roots that are not clean paths: "./src" (as in viber -dir ./src) and
\* "r/".
TreeSrc ==
  { Dir(<<dot_src>>),
    File(<<dot_src, m_go>>, "M"),
    Dir(<<dot_src, sub>>),
    File(<<dot_src, sub, a_go>>, "A") }

TreeSlash == { Dir(<<r_slash>>), File(<<r_slash, a_go>>, "A") }

\* Roots whose last element is an ignored name.
TreeNodeRoot == { Dir(<<dot_nodemod>>), File(<<dot_nodemod, x_go>>, "X") }

TreeSubGitRoot == { Dir(<<sub_dotgit>>), File(<<sub_dotgit, h_go>>, "H") }

\* The root does not exist (os.Lstat fails).
TreeMissing == {}

Trees ==
  { TreeExample, TreeLib, TreeWide, TreeGitRoot, TreeFileRoot, TreeMissing,
    TreeSrc, TreeSlash, TreeNodeRoot, TreeSubGitRoot }

\* The tree with the entries named in bad made unreadable.
WithBad(t, bad) ==
  { IF n.names \in bad THEN [n EXCEPT !.ok = FALSE] ELSE n : n \in t }

\* The path string WalkDir hands to its callback for an entry: the root as
\* given, and filepath.Join(path of the directory, name) below it.
RECURSIVE PathOf(_)
PathOf(names) ==
  IF Len(names) = 1 THEN names[1]
  ELSE Join(PathOf(SubSeq(names, 1, Len(names) - 1)), Last(names))

\* The path of every entry of the trees, as WalkDir computes it.
EntryNames == UNION { { n.names : n \in t } : t \in Trees \cup { TreeBig } }

Paths == [ names \in EntryNames |-> PathOf(names) ]

\* d.Name() of an entry: for the root the name os.Lstat reports, below it
\* the name in its directory.
Name(names) ==
  IF Len(names) = 1 THEN Basename(names[1]) ELSE Last(names)

Children(t, names) ==
  { n \in t : /\ Len(n.names) = Len(names) + 1
              /\ SubSeq(n.names, 1, Len(names)) = names }

\* os.ReadDir: the entries of a directory sorted by file name.
SortByName(S) ==
  LET before == [x \in S |->
                  Cardinality({ y \in S : StrLess(Name(y.names), Name(x.names)) })]
  IN  [k \in 1..Cardinality(S) |-> (CHOOSE x \in S : before[x] = k - 1).names]

ReadDir(t, names) == SortByName(Children(t, names))

Entry(t, names) == CHOOSE n \in t : n.names = names

\* ---------------------------------------------------------------- scanner
\* The ignore file: whether os.Open succeeds, and the lines of its text,
\* that is the pieces between the line feeds of the bytes that reading the
\* file delivers (a carriage return before a line feed is part of the
\* piece).
OpenFails == [open |-> FALSE, lines |-> <<>>]
Lines(lines) == [open |-> TRUE, lines |-> lines]

\* bufio.MaxScanTokenSize, the buffer limit of bufio.NewScanner.
MaxScanTokenSize == 65536

\* The characters of the model that take two and three bytes in UTF-8; the
\* others take one.
TwoBytes == { "U+0085", "U+00A0" }

ThreeBytes ==
  { "U+1680", "U+2000", "U+2001", "U+2002", "U+2003", "U+2004", "U+2005",
    "U+2006", "U+2007", "U+2008", "U+2009", "U+200A", "U+2028", "U+2029",
    "U+202F", "U+205F", "U+3000" }

\* The number of bytes of a line.
Bytes(line) ==
  Len(line)
    + Cardinality({ k \in DOMAIN line : line[k] \in TwoBytes \cup ThreeBytes })
    + Cardinality({ k \in DOMAIN line : line[k] \in ThreeBytes })

\* bufio.ScanLines drops one carriage return at the end of a line.
DropCR(line) ==
  IF line # <<>> /\ Last(line) = "\r"
  THEN SubSeq(line, 1, Len(line) - 1)
  ELSE line

\* Mutant: the scanner has no buffer limit and yields every line.
ScanUnlimited(lines) == [k \in 1..Len(lines) |-> DropCR(lines[k])]

\* The values scanner.Text() takes while scanner.Scan() returns true: the
\* lines in order, without their carriage return. Scan returns false at
\* the end of the text and at the first line that does not fit the buffer
\* with its line feed (MaxScanTokenSize bytes or more); the error it then
\* holds is not read by NewScanner, and the lines behind are never scanned.
Scan(lines) ==
  LET long == { k \in DOMAIN lines : Bytes(lines[k]) >= MaxScanTokenSize }
      n    == IF long = {} THEN Len(lines)
              ELSE (CHOOSE k \in long : \A j \in long : k <= j) - 1
  IN  [k \in 1..n |-> DropCR(lines[k])]

IgnoreFiles ==
  { OpenFails,
    Lines(<< <<"#", " ", "x">>, <<>>, <<" ", "d", ".", "*", " ">> >>),
    Lines(<< <<"[", "a", "-", "c", "]", "?", "g", "o">>, <<" ", " ">> >>),
    Lines(<< <<"s", "u", "b">>, <<" ", "#", "c">>, <<"l", "*">>,
             <<"z", ".", "*">>, <<"r", "/", "*">> >>) }

\* The extension lists handed to NewScanner (the second is the one of main).
ExtLists ==
  { << ext_go >>,
    << ext_svelte, ext_ts, ext_go, ext_html, ext_sql >> }

\* Mutant: the lines are not trimmed.
RECURSIVE LoadPatternsUntrimmed(_)
LoadPatternsUntrimmed(lines) ==
  IF lines = <<>> THEN <<>>
  ELSE LET line == Head(lines)
       IN  IF line # <<>> /\ ~HasPrefix(line, <<"#">>)
           THEN <<line>> \o LoadPatternsUntrimmed(Tail(lines))
           ELSE LoadPatternsUntrimmed(Tail(lines))

\* The loop over the lines the scanner yields.
RECURSIVE LoadPatterns(_)
LoadPatterns(lines) ==
  IF lines = <<>> THEN <<>>
  ELSE LET line == TrimSpace(Head(lines))
       IN  IF line # <<>> /\ ~HasPrefix(line, <<"#">>)
           THEN <<line>> \o LoadPatterns(Tail(lines))
           ELSE LoadPatterns(Tail(lines))

\* Mutant: a failure to open the ignore file is returned as the error.
NewScannerStrict(root, ignoreFile, extensions) ==
  [ s   |-> [ Root         |-> root,
              IgnoredNames |-> {dotgit, nodemod},
              Patterns     |-> IF ~ignoreFile.open THEN <<>>
                               ELSE LoadPatterns(Scan(ignoreFile.lines)),
              AllowedExts  |-> { extensions[k] : k \in DOMAIN extensions } ],
    err |-> IF ~ignoreFile.open THEN [op |-> "open", path |-> <<>>] ELSE Nil ]

\* NewScanner(root, ignoreFile, extensions): the scanner and the error.
NewScanner(root, ignoreFile, extensions) ==
  [ s   |-> [ Root         |-> root,
              IgnoredNames |-> {dotgit, nodemod},
              Patterns     |-> IF ~ignoreFile.open THEN <<>>
                               ELSE LoadPatterns(Scan(ignoreFile.lines)),
              AllowedExts  |-> { extensions[k] : k \in DOMAIN extensions } ],
    err |-> Nil ]

\* The pure parts of the WalkDir callback.
\* Mutant: the callback does not prune (the IgnoredNames test is missing).
ShouldDescendAlways(s, name) == TRUE

\* A directory is pruned when its name is in IgnoredNames.
ShouldDescend(s, name) == name \notin s.IgnoredNames

\* Mutant: the pattern loop is missing, only the extension decides.
ShouldIncludeExtOnly(s, path, name) == Ext(path) \in s.AllowedExts

\* Mutant: the patterns are matched against the path, not d.Name().
ShouldIncludeFullPath(s, path, name) ==
  /\ Ext(path) \in s.AllowedExts
  /\ \A k \in DOMAIN s.Patterns : ~Match(s.Patterns[k], path)

\* A file is pushed when its extension is allowed and no pattern matches
\* its base name.
ShouldInclude(s, path, name) ==
  /\ Ext(path) \in s.AllowedExts
  /\ \A k \in DOMAIN s.Patterns : ~Match(s.Patterns[k], name)

\* os.ReadFile(path) on tree t.
ReadFile(t, path) ==
  LET fs == { n \in t : ~n.isDir /\ Paths[n.names] = path }
  IN  IF fs # {} /\ (CHOOSE n \in fs : TRUE).ok
      THEN [bytes |-> (CHOOSE n \in fs : TRUE).content, err |-> Nil]
      ELSE [bytes |-> "", err |-> [op |-> "read", path |-> path]]

\* ------------------------------------------------------------------- state
VARIABLES
  tree,        \* the directory tree on disk (not modified during a scan)
  ignoreFile,  \* the ignore file handed to NewScanner
  scanner,     \* the *FileScanner NewScanner returned
  newErr,      \* the error NewScanner returned
  workerCount, \* the argument of ScanForAI
  pc,          \* position of the ScanForAI goroutine
  i,           \* loop counter of the spawn loop
  todo,        \* entries WalkDir has still to visit, in visiting order
  sendPath,    \* the path the callback is sending on pathsChan
  err,         \* the error WalkDir returned
  ret,         \* the value ScanForAI returned
  pathsChan,   \* the buffer of the channel
  closed,      \* the channel has been closed
  wg,          \* the WaitGroup counter
  wpc,         \* position of each worker goroutine
  wpath,       \* the path a worker received
  wbytes,      \* the bytes a worker read
  checked,     \* paths that reached the extension / pattern check
  pushed,      \* bag of the paths sent on pathsChan
  taken,       \* bag of the paths received from pathsChan
  delivered,   \* bag of the FileContent values the callback has handled
  walkErrs,    \* the errors WalkDir handed to its callback, in order
  second,      \* this is the second scan of the same tree
  prev,        \* the bag delivered by the first scan
  fileCount,   \* main: the counter process adds to
  mu,          \* main: the worker that holds the mutex, 0 when unlocked
  builder,     \* main: the pieces written to the strings.Builder, in order
  repoContext, \* main: the string read from the builder after the scan
  apc,         \* position of AskAboutRepo
  chatErr,     \* AskAboutRepo: ai.client.Chat returned an error
  askRet,      \* what AskAboutRepo returned
  spc,         \* position of the playSpinner goroutine
  frame,       \* playSpinner: the index i of the next frame
  sent,        \* number of sends on done that have completed
  stopped      \* playSpinner has received from done

inputs == << tree, ignoreFile, scanner, newErr, workerCount >>
walker == << pc, i, todo, sendPath, err, ret >>
chan   == << pathsChan, closed, wg >>
pool   == << wpc, wpath, wbytes >>
hist   == << checked, pushed, taken, delivered, walkErrs >>
runs   == << second, prev >>
main   == << fileCount, mu, builder, repoContext >>
ask    == << apc, chatErr, askRet, spc, frame, sent, stopped >>
vars   == << inputs, walker, chan, pool, hist, runs, main, ask >>

Workers == 1..MaxWorkers

RootOf(t) ==
  IF t = {} THEN rdir ELSE (CHOOSE n \in t : Len(n.names) = 1).names[1]

BadSets(t) ==
  { b \in SUBSET { n.names : n \in t } : Cardinality(b) <= MaxBad }

\* The state at the entry of ScanForAI: channel made, WaitGroup zero.
ScanEntry ==
  /\ pc = "spawn"
  /\ i = 0
  /\ todo = <<>>
  /\ sendPath = <<>>
  /\ err = Nil
  /\ ret = Nil
  /\ pathsChan = <<>>
  /\ closed = FALSE
  /\ wg = 0
  /\ wpc = [w \in Workers |-> "idle"]
  /\ wpath = [w \in Workers |-> <<>>]
  /\ wbytes = [w \in Workers |-> ""]
  /\ checked = {}
  /\ pushed = EmptyBag
  /\ taken = EmptyBag
  /\ delivered = EmptyBag
  /\ walkErrs = <<>>

\* main before the first callback, and no question asked yet.
MainEntry ==
  /\ fileCount = 0
  /\ mu = 0
  /\ builder = <<>>
  /\ repoContext = <<>>

NoQuestion ==
  /\ apc = "idle"
  /\ chatErr = FALSE
  /\ askRet = "none"
  /\ spc = "none"
  /\ frame = 0
  /\ sent = 0
  /\ stopped = FALSE

Init ==
  /\ \E t \in Trees : \E bad \in BadSets(t) : \E f \in IgnoreFiles :
       \E x \in ExtLists :
         LET r == NewScanner(RootOf(t), f, x)
         IN  /\ tree = WithBad(t, bad)
             /\ ignoreFile = f
             /\ scanner = r.s
             /\ newErr = r.err
  /\ workerCount \in 1..MaxWorkers
  /\ second = FALSE
  /\ prev = EmptyBag
  /\ ScanEntry
  /\ MainEntry
  /\ NoQuestion

\* ------------------------------------------------------- ScanForAI: spawn
\* Mutant: wg.Add(1) is done once for the whole pool.
SpawnAddOnce ==
  /\ pc = "spawn"
  /\ i < workerCount
  /\ wg' = 1
  /\ wpc' = [wpc EXCEPT ![i + 1] = "recv"]
  /\ i' = i + 1
  /\ UNCHANGED << inputs, todo, sendPath, err, ret, pc, pathsChan, closed,
                  wpath, wbytes, hist, runs, main, ask >>

\* Mutant: a pool of at least one worker is started whatever workerCount.
SpawnAtLeastOne ==
  /\ pc = "spawn"
  /\ i < workerCount \/ i = 0
  /\ wg' = wg + 1
  /\ wpc' = [wpc EXCEPT ![i + 1] = "recv"]
  /\ i' = i + 1
  /\ UNCHANGED << inputs, todo, sendPath, err, ret, pc, pathsChan, closed,
                  wpath, wbytes, hist, runs, main, ask >>

\* Mutant: the spawn loop runs once too often (i <= workerCount).
SpawnOneMore ==
  /\ pc = "spawn"
  /\ i <= workerCount
  /\ i < MaxWorkers
  /\ wg' = wg + 1
  /\ wpc' = [wpc EXCEPT ![i + 1] = "recv"]
  /\ i' = i + 1
  /\ UNCHANGED << inputs, todo, sendPath, err, ret, pc, pathsChan, closed,
                  wpath, wbytes, hist, runs, main, ask >>

\* One iteration of the spawn loop: wg.Add(1); go func() {...}().
Spawn ==
  /\ pc = "spawn"
  /\ i < workerCount
  /\ wg' = wg + 1
  /\ wpc' = [wpc EXCEPT ![i + 1] = "recv"]
  /\ i' = i + 1
  /\ UNCHANGED << inputs, todo, sendPath, err, ret, pc, pathsChan, closed,
                  wpath, wbytes, hist, runs, main, ask >>

\* ------------------------------------------------------ ScanForAI: walk
\* The spawn loop ends and WalkDir starts: os.Lstat(root); on failure the
\* callback is called with the error and returns it.
StartWalk ==
  /\ pc = "spawn"
  /\ ~(i < workerCount)
  /\ pc' = "walk"
  /\ LET roots == { n \in tree : Len(n.names) = 1 }
     IN  IF roots = {}
         THEN LET e == [op |-> "lstat", path |-> scanner.Root]
              IN  /\ err' = e
                  /\ walkErrs' = Append(walkErrs, e)
                  /\ todo' = <<>>
         ELSE /\ todo' = << (CHOOSE n \in roots : TRUE).names >>
              /\ UNCHANGED << err, walkErrs >>
  /\ UNCHANGED << inputs, i, sendPath, ret, chan, pool, checked, pushed,
                  taken, delivered, runs, main, ask >>

\* Mutant: a directory that cannot be read is skipped (the callback answers
\* the error with SkipDir) and the walk goes on.
VisitSkipUnreadable ==
  /\ pc = "walk"
  /\ todo # <<>>
  /\ LET names == Head(todo)
         d     == Entry(tree, names)
         path  == Paths[names]
     IN  IF d.isDir
         THEN /\ IF ~ShouldDescend(scanner, Name(names))
                 THEN /\ todo' = Tail(todo)
                      /\ UNCHANGED << err, walkErrs >>
                 ELSE IF d.ok
                 THEN /\ todo' = ReadDir(tree, names) \o Tail(todo)
                      /\ UNCHANGED << err, walkErrs >>
                 ELSE LET e == [op |-> "readdir", path |-> path]
                      IN  /\ walkErrs' = Append(walkErrs, e)
                          /\ todo' = Tail(todo)
                          /\ UNCHANGED err
              /\ UNCHANGED << pc, sendPath, checked >>
         ELSE /\ checked' = checked \cup {path}
              /\ todo' = Tail(todo)
              /\ IF ShouldInclude(scanner, path, Name(names))
                 THEN pc' = "send" /\ sendPath' = path
                 ELSE UNCHANGED << pc, sendPath >>
              /\ UNCHANGED << err, walkErrs >>
  /\ UNCHANGED << inputs, i, ret, chan, pool, pushed, taken, delivered, runs, main, ask >>

\* WalkDir visits the next entry: one call of the callback and, for a
\* directory the callback accepts, the ReadDir that follows it (with the
\* second call of the callback when ReadDir fails).
Visit ==
  /\ pc = "walk"
  /\ todo # <<>>
  /\ LET names == Head(todo)
         d     == Entry(tree, names)
         path  == Paths[names]
     IN  IF d.isDir
         THEN /\ IF ~ShouldDescend(scanner, Name(names))
                 THEN /\ todo' = Tail(todo)
                      /\ UNCHANGED << err, walkErrs >>
                 ELSE IF d.ok
                 THEN /\ todo' = ReadDir(tree, names) \o Tail(todo)
                      /\ UNCHANGED << err, walkErrs >>
                 ELSE LET e == [op |-> "readdir", path |-> path]
                      IN  /\ err' = e
                          /\ walkErrs' = Append(walkErrs, e)
                          /\ todo' = <<>>
              /\ UNCHANGED << pc, sendPath, checked >>
         ELSE /\ checked' = checked \cup {path}
              /\ todo' = Tail(todo)
              /\ IF ShouldInclude(scanner, path, Name(names))
                 THEN pc' = "send" /\ sendPath' = path
                 ELSE UNCHANGED << pc, sendPath >>
              /\ UNCHANGED << err, walkErrs >>
  /\ UNCHANGED << inputs, i, ret, chan, pool, pushed, taken, delivered, runs, main, ask >>

\* Mutant: the channel is unbounded, a send never blocks.
SendUnbounded ==
  /\ pc = "send"
  /\ pathsChan' = Append(pathsChan, sendPath)
  /\ pushed' = pushed (+) SetToBag({sendPath})
  /\ sendPath' = <<>>
  /\ pc' = "walk"
  /\ UNCHANGED << inputs, i, todo, err, ret, closed, wg, pool, checked,
                  taken, delivered, walkErrs, runs, main, ask >>

\* pathsChan <- path: blocks while the buffer is full.
Send ==
  /\ pc = "send"
  /\ Len(pathsChan) < QueueCap
  /\ pathsChan' = Append(pathsChan, sendPath)
  /\ pushed' = pushed (+) SetToBag({sendPath})
  /\ sendPath' = <<>>
  /\ pc' = "walk"
  /\ UNCHANGED << inputs, i, todo, err, ret, closed, wg, pool, checked,
                  taken, delivered, walkErrs, runs, main, ask >>

\* Mutant: a walk error is returned at once, before close and Wait.
CloseOrReturnEarly ==
  /\ pc = "walk"
  /\ todo = <<>>
  /\ IF err # Nil
     THEN pc' = "returned" /\ ret' = err /\ UNCHANGED closed
     ELSE pc' = "wait" /\ closed' = TRUE /\ UNCHANGED ret
  /\ UNCHANGED << inputs, i, todo, sendPath, err, pathsChan, wg, pool,
                  hist, runs, main, ask >>

\* Mutant: the channel is never closed.
CloseForgotten ==
  /\ pc = "walk"
  /\ todo = <<>>
  /\ pc' = "wait"
  /\ UNCHANGED << inputs, i, todo, sendPath, err, ret, chan, pool, hist, runs, main, ask >>

\* WalkDir has returned: close(pathsChan).
Close ==
  /\ pc = "walk"
  /\ todo = <<>>
  /\ closed' = TRUE
  /\ pc' = "wait"
  /\ UNCHANGED << inputs, i, todo, sendPath, err, ret, pathsChan, wg, pool,
                  hist, runs, main, ask >>

\* Mutant: wg.Wait() is missing.
WaitNoBarrier == TRUE

\* wg.Wait() returns when the counter is zero.
WaitReady == wg = 0

\* Mutant: ScanForAI returns nil whatever the walk returned.
WaitReturnNil ==
  /\ pc = "wait"
  /\ WaitReady
  /\ ret' = Nil
  /\ pc' = "returned"
  /\ UNCHANGED << inputs, i, todo, sendPath, err, chan, pool, hist, runs, main, ask >>

\* wg.Wait(); return err.
Wait ==
  /\ pc = "wait"
  /\ WaitReady
  /\ ret' = err
  /\ pc' = "returned"
  /\ UNCHANGED << inputs, i, todo, sendPath, err, chan, pool, hist, runs, main, ask >>

\* ----------------------------------------------------------------- workers
\* Mutant: a receive leaves the path in the buffer until a second worker
\* has seen it too.
ReceivePeek(w) ==
  /\ wpc[w] = "recv"
  /\ pathsChan # <<>>
  /\ wpath' = [wpath EXCEPT ![w] = Head(pathsChan)]
  /\ pathsChan' = IF BagIn(Head(pathsChan), taken) THEN Tail(pathsChan)
                  ELSE pathsChan
  /\ taken' = taken (+) SetToBag({Head(pathsChan)})
  /\ wpc' = [wpc EXCEPT ![w] = "read"]
  /\ UNCHANGED << inputs, walker, closed, wg, wbytes, checked, pushed,
                  delivered, walkErrs, runs, main, ask >>

\* for path := range pathsChan: receive the next path.
Receive(w) ==
  /\ wpc[w] = "recv"
  /\ pathsChan # <<>>
  /\ wpath' = [wpath EXCEPT ![w] = Head(pathsChan)]
  /\ pathsChan' = Tail(pathsChan)
  /\ taken' = taken (+) SetToBag({Head(pathsChan)})
  /\ wpc' = [wpc EXCEPT ![w] = "read"]
  /\ UNCHANGED << inputs, walker, closed, wg, wbytes, checked, pushed,
                  delivered, walkErrs, runs, main, ask >>

\* Mutant: the continue after a failed read is missing.
ReadNoContinue(w) ==
  /\ wpc[w] = "read"
  /\ wpc' = [wpc EXCEPT ![w] = "sink"]
  /\ wbytes' = [wbytes EXCEPT ![w] = ReadFile(tree, wpath[w]).bytes]
  /\ UNCHANGED wpath
  /\ UNCHANGED << inputs, walker, chan, hist, runs, main, ask >>

\* os.ReadFile(path); on error continue, else the callback is entered.
Read(w) ==
  /\ wpc[w] = "read"
  /\ LET r == ReadFile(tree, wpath[w])
     IN  IF r.err # Nil
         THEN /\ wpc' = [wpc EXCEPT ![w] = "recv"]
              /\ wpath' = [wpath EXCEPT ![w] = <<>>]
              /\ UNCHANGED wbytes
         ELSE /\ wpc' = [wpc EXCEPT ![w] = "sink"]
              /\ wbytes' = [wbytes EXCEPT ![w] = r.bytes]
              /\ UNCHANGED wpath
  /\ UNCHANGED << inputs, walker, chan, hist, runs, main, ask >>

\* callback(FileContent{Path: path, Content: string(bytes)}) returns.
SinkReturn(w) ==
  /\ wpc[w] = "sink"
  /\ delivered' =
       delivered (+) SetToBag({[Path |-> wpath[w], Content |-> wbytes[w]]})
  /\ wpc' = [wpc EXCEPT ![w] = "recv"]
  /\ wpath' = [wpath EXCEPT ![w] = <<>>]
  /\ wbytes' = [wbytes EXCEPT ![w] = ""]
  /\ UNCHANGED << inputs, walker, chan, checked, pushed, taken, walkErrs,
                  runs, main, ask >>

\* Mutant: a worker also ends when it finds the channel empty, closed or not.
ExitOnEmpty(w) ==
  /\ wpc[w] = "recv"
  /\ pathsChan = <<>>
  /\ wpc' = [wpc EXCEPT ![w] = "done"]
  /\ wg' = wg - 1
  /\ UNCHANGED << inputs, walker, pathsChan, closed, wpath, wbytes, hist,
                  runs, main, ask >>

\* Mutant: a worker ends as soon as the channel is closed, drained or not.
ExitOnClosed(w) ==
  /\ wpc[w] = "recv"
  /\ closed
  /\ wpc' = [wpc EXCEPT ![w] = "done"]
  /\ wg' = wg - 1
  /\ UNCHANGED << inputs, walker, pathsChan, closed, wpath, wbytes, hist,
                  runs, main, ask >>

\* The range loop ends on a closed, empty channel; the deferred wg.Done().
Exit(w) ==
  /\ wpc[w] = "recv"
  /\ closed
  /\ pathsChan = <<>>
  /\ wpc' = [wpc EXCEPT ![w] = "done"]
  /\ wg' = wg - 1
  /\ UNCHANGED << inputs, walker, pathsChan, closed, wpath, wbytes, hist,
                  runs, main, ask >>

\* --------------------------------------------------------------- second run
\* The caller scans the same tree again with the same scanner.
Rescan ==
  /\ pc = "returned"
  /\ ~second
  /\ second' = TRUE
  /\ prev' = delivered
  /\ pc' = "spawn"
  /\ i' = 0
  /\ todo' = <<>>
  /\ sendPath' = <<>>
  /\ err' = Nil
  /\ ret' = Nil
  /\ pathsChan' = <<>>
  /\ closed' = FALSE
  /\ wg' = 0
  /\ wpc' = [w \in Workers |-> "idle"]
  /\ wpath' = [w \in Workers |-> <<>>]
  /\ wbytes' = [w \in Workers |-> ""]
  /\ checked' = {}
  /\ pushed' = EmptyBag
  /\ taken' = EmptyBag
  /\ delivered' = EmptyBag
  /\ walkErrs' = <<>>
  /\ UNCHANGED << inputs, main, ask >>

Next ==
  \/ Spawn
  \/ StartWalk
  \/ Visit
  \/ Send
  \/ Close
  \/ Wait
  \/ \E w \in Workers : Receive(w)
  \/ \E w \in Workers : Read(w)
  \/ \E w \in Workers : SinkReturn(w)
  \/ \E w \in Workers : Exit(w)
  \/ Rescan

Spec == Init /\ [][Next]_vars

\* ----------------------------------------------------------- scheduling
\* The Go scheduler runs every runnable goroutine: the goroutine that
\* called ScanForAI and each worker take their next step when it stays
\* possible; the callback always returns.
WalkerStep == Spawn \/ StartWalk \/ Visit \/ Send \/ Close \/ Wait

WorkerStep(w) == Receive(w) \/ Read(w) \/ SinkReturn(w) \/ Exit(w)

Fairness ==
  /\ WF_vars(WalkerStep)
  /\ \A w \in Workers : WF_vars(WorkerStep(w))

\* A step of the scan: of the calling goroutine or of a worker.
ScanStep == WalkerStep \/ \E w \in Workers : WorkerStep(w)

\* The scans of Init for .go files without an ignore file (filtering has
\* no part in the scheduling), and the scan by one worker of the tree that
\* overfills the channel.
InitFair ==
  \/ Init /\ ~ignoreFile.open /\ scanner.AllowedExts = {ext_go}
  \/ /\ LET r == NewScanner(RootOf(TreeBig), OpenFails, << ext_go >>)
        IN  /\ tree = TreeBig
            /\ ignoreFile = OpenFails
            /\ scanner = r.s
            /\ newErr = r.err
     /\ workerCount = 1
     /\ second = FALSE
     /\ prev = EmptyBag
     /\ ScanEntry
     /\ MainEntry
     /\ NoQuestion

SpecFair == InitFair /\ [][ScanStep]_vars /\ Fairness

\* ------------------------------------------------------ edge-case inputs
\* ScanForAI does not check workerCount: the callers of this specification
\* also hand it zero and a negative number, and scan the tree that
\* overfills the channel (with no worker or with one).
InitEdge ==
  /\ \/ /\ \E t \in Trees : \E bad \in BadSets(t) : \E f \in IgnoreFiles :
             \E x \in ExtLists :
               LET r == NewScanner(RootOf(t), f, x)
               IN  /\ tree = WithBad(t, bad)
                   /\ ignoreFile = f
                   /\ scanner = r.s
                   /\ newErr = r.err
        /\ workerCount \in {-1, 0}
     \/ /\ LET r == NewScanner(RootOf(TreeBig), OpenFails, << ext_go >>)
           IN  /\ tree = TreeBig
               /\ ignoreFile = OpenFails
               /\ scanner = r.s
               /\ newErr = r.err
        /\ workerCount \in {-1, 0, 1}
  /\ second = FALSE
  /\ prev = EmptyBag
  /\ ScanEntry
  /\ MainEntry
  /\ NoQuestion

SpecEdge == InitEdge /\ [][Next]_vars

\* ------------------------------------------------------ NewScanner alone
\* The call of NewScanner in main, on every ignore file of at most MaxLines
\* lines of at most MaxLineLen characters (and on those of IgnoreFiles,
\* SpaceFiles and LongFiles).
LineChars == { " ", "\t", "#", "a" }

SeqsUpTo(S, n) == UNION { [1..k -> S] : k \in 0..n }

GeneratedFiles ==
  { Lines(ls) : ls \in SeqsUpTo(SeqsUpTo(LineChars, MaxLineLen), MaxLines) }

\* The scanner variable before NewScanner has returned.
NoScanner ==
  [ Root |-> <<>>, IgnoredNames |-> {}, Patterns |-> <<>>, AllowedExts |-> {} ]

\* For every white-space character other than the line feed that ends a
\* line: a comment behind it, and a pattern between two of it.
SpaceFiles ==
  { Lines(<< <<c, "#", "c">>, <<c, "a", c>> >>) : c \in WhiteSpace \ { "\n" } }

\* A line of n bytes.
Run(n) == [k \in 1..n |-> "a"]

\* Ignore files with a line at the buffer limit of the scanner: a line of
\* MaxScanTokenSize bytes behind a comment and a pattern and before another
\* pattern; the longest line that fits; a comment, a line ending in a
\* two-byte character and a line ending in a carriage return of
\* MaxScanTokenSize bytes each.
LongFiles ==
  { Lines(<< <<"U+00A0", "#", "c">>, <<"U+00A0", "a", "U+00A0">>,
             Run(MaxScanTokenSize), <<"b">> >>),
    Lines(<< Run(MaxScanTokenSize - 1), <<"b">> >>),
    Lines(<< <<"#">> \o Run(MaxScanTokenSize - 1), <<"b">> >>),
    Lines(<< Run(MaxScanTokenSize - 2) \o <<"U+00A0">>, <<"b">> >>),
    Lines(<< Run(MaxScanTokenSize - 1) \o <<"\r">>, <<"b">> >>) }

InitLoad ==
  /\ ignoreFile \in IgnoreFiles \cup GeneratedFiles \cup SpaceFiles
                    \cup LongFiles
  /\ tree = TreeMissing
  /\ scanner = NoScanner
  /\ newErr = Nil
  /\ workerCount = 1
  /\ pc = "new"
  /\ i = 0
  /\ todo = <<>>
  /\ sendPath = <<>>
  /\ err = Nil
  /\ ret = Nil
  /\ pathsChan = <<>>
  /\ closed = FALSE
  /\ wg = 0
  /\ wpc = [w \in Workers |-> "idle"]
  /\ wpath = [w \in Workers |-> <<>>]
  /\ wbytes = [w \in Workers |-> ""]
  /\ checked = {}
  /\ pushed = EmptyBag
  /\ taken = EmptyBag
  /\ delivered = EmptyBag
  /\ walkErrs = <<>>
  /\ second = FALSE
  /\ prev = EmptyBag
  /\ MainEntry
  /\ NoQuestion

\* scanner, _ := NewScanner(*dirPtr, ".gitignore", []string{...})
MakeScanner ==
  /\ pc = "new"
  /\ LET r == NewScanner(dot, ignoreFile,
                         << ext_svelte, ext_ts, ext_go, ext_html, ext_sql >>)
     IN  /\ scanner' = r.s
         /\ newErr' = r.err
  /\ pc' = "made"
  /\ UNCHANGED << tree, ignoreFile, workerCount, i, todo, sendPath, err, ret,
                  chan, pool, hist, runs, main, ask >>

NextLoad == MakeScanner

SpecLoad == InitLoad /\ [][NextLoad]_vars

\* ------------------------------------------------- main: the process sink
\* main hands ScanForAI the closure process, which adds to fileCount and
\* writes one block for the file to builder under the mutex mu; the block
\* reaches the builder's buffer front first: its header line, then the
\* content. After ScanForAI has returned main reads the builder.
InitMain ==
  /\ \E t \in { TreeExample, TreeLib, TreeWide } : \E bad \in BadSets(t) :
       \E f \in IgnoreFiles :
         LET r == NewScanner(RootOf(t), f,
                    << ext_svelte, ext_ts, ext_go, ext_html, ext_sql >>)
         IN  /\ tree = WithBad(t, bad)
             /\ ignoreFile = f
             /\ scanner = r.s
             /\ newErr = r.err
  /\ workerCount \in 1..MaxWorkers
  /\ second = FALSE
  /\ prev = EmptyBag
  /\ ScanEntry
  /\ MainEntry
  /\ NoQuestion

\* The FileContent a worker hands to the callback.
Arg(w) == [Path |-> wpath[w], Content |-> wbytes[w]]

\* atomic.AddInt64(&fileCount, 1)
Count(w) ==
  /\ wpc[w] = "sink"
  /\ fileCount' = fileCount + 1
  /\ wpc' = [wpc EXCEPT ![w] = "lock"]
  /\ UNCHANGED << inputs, walker, chan, wpath, wbytes, hist, runs, mu,
                  builder, repoContext, ask >>

\* Mutant: the lock is taken whether it is held or not.
LockAnyway(w) ==
  /\ wpc[w] = "lock"
  /\ mu' = w
  /\ wpc' = [wpc EXCEPT ![w] = "head"]
  /\ UNCHANGED << inputs, walker, chan, wpath, wbytes, hist, runs, fileCount,
                  builder, repoContext, ask >>

\* mu.Lock(): blocks while another worker holds the mutex.
Lock(w) ==
  /\ wpc[w] = "lock"
  /\ mu = 0
  /\ mu' = w
  /\ wpc' = [wpc EXCEPT ![w] = "head"]
  /\ UNCHANGED << inputs, walker, chan, wpath, wbytes, hist, runs, fileCount,
                  builder, repoContext, ask >>

\* builder.WriteString(...): the header "\n--- FILE: <path> ---\n".
WriteHead(w) ==
  /\ wpc[w] = "head"
  /\ builder' = Append(builder, [part |-> "head", fc |-> Arg(w)])
  /\ wpc' = [wpc EXCEPT ![w] = "body"]
  /\ UNCHANGED << inputs, walker, chan, wpath, wbytes, hist, runs, fileCount,
                  mu, repoContext, ask >>

\* builder.WriteString(...): the content and its closing newline.
WriteBody(w) ==
  /\ wpc[w] = "body"
  /\ builder' = Append(builder, [part |-> "body", fc |-> Arg(w)])
  /\ wpc' = [wpc EXCEPT ![w] = "unlock"]
  /\ UNCHANGED << inputs, walker, chan, wpath, wbytes, hist, runs, fileCount,
                  mu, repoContext, ask >>

\* mu.Unlock(); process returns and the worker goes back to its loop.
Unlock(w) ==
  /\ wpc[w] = "unlock"
  /\ mu' = 0
  /\ delivered' = delivered (+) SetToBag({Arg(w)})
  /\ wpc' = [wpc EXCEPT ![w] = "recv"]
  /\ wpath' = [wpath EXCEPT ![w] = <<>>]
  /\ wbytes' = [wbytes EXCEPT ![w] = ""]
  /\ UNCHANGED << inputs, walker, chan, checked, pushed, taken, walkErrs,
                  runs, fileCount, builder, repoContext, ask >>

\* repoContext := builder.String()
ReadBuilder ==
  /\ pc = "returned"
  /\ pc' = "context"
  /\ repoContext' = builder
  /\ UNCHANGED << inputs, i, todo, sendPath, err, ret, chan, pool, hist, runs,
                  fileCount, mu, builder, ask >>

NextMain ==
  \/ Spawn
  \/ StartWalk
  \/ Visit
  \/ Send
  \/ Close
  \/ Wait
  \/ \E w \in Workers : Receive(w)
  \/ \E w \in Workers : Read(w)
  \/ \E w \in Workers : Count(w)
  \/ \E w \in Workers : Lock(w)
  \/ \E w \in Workers : WriteHead(w)
  \/ \E w \in Workers : WriteBody(w)
  \/ \E w \in Workers : Unlock(w)
  \/ \E w \in Workers : Exit(w)
  \/ ReadBuilder

SpecMain == InitMain /\ [][NextMain]_vars

\* ---------------------------------------------- AskAboutRepo, playSpinner
\* main is in its interactive loop and calls AskAboutRepo for a question.
\* done is unbuffered: the send parks AskAboutRepo until playSpinner, which
\* never waits in a receive (its select has a default), takes the value.
InitAsk ==
  /\ LET r == NewScanner(dot, OpenFails,
                         << ext_svelte, ext_ts, ext_go, ext_html, ext_sql >>)
     IN  /\ tree = TreeMissing
         /\ ignoreFile = OpenFails
         /\ scanner = r.s
         /\ newErr = r.err
  /\ workerCount = 1
  /\ pc = "loop"
  /\ i = 0
  /\ todo = <<>>
  /\ sendPath = <<>>
  /\ err = Nil
  /\ ret = Nil
  /\ pathsChan = <<>>
  /\ closed = FALSE
  /\ wg = 0
  /\ wpc = [w \in Workers |-> "idle"]
  /\ wpath = [w \in Workers |-> <<>>]
  /\ wbytes = [w \in Workers |-> ""]
  /\ checked = {}
  /\ pushed = EmptyBag
  /\ taken = EmptyBag
  /\ delivered = EmptyBag
  /\ walkErrs = <<>>
  /\ second = FALSE
  /\ prev = EmptyBag
  /\ MainEntry
  /\ NoQuestion

scan == << inputs, walker, chan, pool, hist, runs, main >>

\* done := make(chan bool); go ai.playSpinner(ctx, done); Chat is called.
AskStart ==
  /\ apc = "idle"
  /\ apc' = "chat"
  /\ spc' = "select"
  /\ frame' = 0
  /\ UNCHANGED << scan, chatErr, askRet, sent, stopped >>

\* ai.client.Chat returns, with or without an error.
ChatReturns ==
  /\ apc = "chat"
  /\ \E e \in BOOLEAN : chatErr' = e
  /\ apc' = "stop"
  /\ UNCHANGED << scan, askRet, spc, frame, sent, stopped >>

\* done <- true: no receiver is waiting, AskAboutRepo parks in the send.
SendStop ==
  /\ apc = "stop"
  /\ apc' = "sending"
  /\ UNCHANGED << scan, chatErr, askRet, spc, frame, sent, stopped >>

\* select, default: no sender is parked on done; the frame is printed and
\* i = (i + 1) % len(frames); then time.Sleep.
SpinDefault ==
  /\ spc = "select"
  /\ apc # "sending"
  /\ frame' = (frame + 1) % NumFrames
  /\ spc' = "sleep"
  /\ UNCHANGED << scan, apc, chatErr, askRet, sent, stopped >>

\* time.Sleep(100 * time.Millisecond) is over: next iteration.
SpinWake ==
  /\ spc = "sleep"
  /\ spc' = "select"
  /\ UNCHANGED << scan, apc, chatErr, askRet, frame, sent, stopped >>

\* Mutant: the case leaves the select only (a break), the loop goes on.
StopReceivedNoReturn ==
  /\ spc = "select"
  /\ apc = "sending"
  /\ stopped' = TRUE
  /\ sent' = sent + 1
  /\ apc' = "check"
  /\ spc' = "select"
  /\ UNCHANGED << scan, chatErr, askRet, frame >>

\* select, case <-done: the parked send completes and AskAboutRepo goes on.
StopReceived ==
  /\ spc = "select"
  /\ apc = "sending"
  /\ stopped' = TRUE
  /\ sent' = sent + 1
  /\ apc' = "check"
  /\ spc' = "clear"
  /\ UNCHANGED << scan, chatErr, askRet, frame >>

\* fmt.Print of the clearing line; return.
SpinReturn ==
  /\ spc = "clear"
  /\ spc' = "done"
  /\ UNCHANGED << scan, apc, chatErr, askRet, frame, sent, stopped >>

\* if err != nil { return err }
AskCheck ==
  /\ apc = "check"
  /\ IF chatErr
     THEN apc' = "returned" /\ askRet' = "err"
     ELSE apc' = "render" /\ UNCHANGED askRet
  /\ UNCHANGED << scan, chatErr, spc, frame, sent, stopped >>

\* The response is rendered and printed; return nil.
AskRender ==
  /\ apc = "render"
  /\ apc' = "returned"
  /\ askRet' = "nil"
  /\ UNCHANGED << scan, chatErr, spc, frame, sent, stopped >>

AskStep == AskStart \/ ChatReturns \/ SendStop \/ AskCheck \/ AskRender

SpinnerStep == SpinDefault \/ SpinWake \/ StopReceived \/ SpinReturn

NextAsk ==
  \/ AskStart
  \/ ChatReturns
  \/ SendStop
  \/ SpinDefault
  \/ SpinWake
  \/ StopReceived
  \/ SpinReturn
  \/ AskCheck
  \/ AskRender

\* Both goroutines are scheduled, and Chat returns.
SpecAsk ==
  InitAsk /\ [][NextAsk]_vars /\ WF_vars(AskStep) /\ WF_vars(SpinnerStep)

\* ======================================================================
\* Vocabulary of the claims, stated on the tree and not on the walk.
Files(t) == { n \in t : ~n.isDir }

\* The directories above an entry, the root included.
Ancestors(names) == { SubSeq(names, 1, k) : k \in 1..(Len(names) - 1) }

UnderIgnored(names) ==
  \E a \in Ancestors(names) : Name(a) \in scanner.IgnoredNames

\* The extension of a base name: from its last dot to its end, empty
\* without a dot.
SpecExt(name) ==
  LET dots == { k \in 1..Len(name) : name[k] = "." }
  IN  IF dots = {} THEN <<>>
      ELSE SubSeq(name, CHOOSE k \in dots : \A j \in dots : j <= k, Len(name))

ExtAllowed(n) == SpecExt(Name(n.names)) \in scanner.AllowedExts

PatternMatched(n) ==
  \E k \in DOMAIN scanner.Patterns : Match(scanner.Patterns[k], Name(n.names))

Eligible(n) ==
  ExtAllowed(n) /\ ~PatternMatched(n) /\ ~UnderIgnored(n.names)

FC(n) == [Path |-> Paths[n.names], Content |-> n.content]

\* Number of callback invocations made for a path.
DeliveriesOf(path) ==
  LET S == { fc \in BagToSet(delivered) : fc.Path = path }
  IN  BagCardinality([fc \in S |-> delivered[fc]])

SinkCalled(n) == BagIn(FC(n), delivered)

Readable(path) == ReadFile(tree, path).err = Nil

Spawned == 1..workerCount

\* ---------------------------------------------------------------------- C1
\* C1 as stated: when ScanForAI has returned, the callback has been invoked
\* for a file iff its extension is allowed, no pattern matches its base name
\* and no ancestor directory has an ignored name.
C1_AsStated ==
  pc = "returned" =>
    \A n \in Files(tree) : SinkCalled(n) <=> Eligible(n)

\* C1 amended: when ScanForAI has returned nil, the callback has been
\* invoked for a file iff it is eligible (extension allowed, no pattern
\* matches, no ignored ancestor) and its read succeeded; when it has returned
\* a walk-level error, the callback has been invoked only for eligible,
\* readable files.
C1_SinkIffEligibleAndRead ==
  pc = "returned" =>
    \A n \in Files(tree) :
      /\ SinkCalled(n) => (Eligible(n) /\ n.ok)
      /\ (ret = Nil /\ Eligible(n) /\ n.ok) => SinkCalled(n)

\* A nil return with a delivered file, an eligible file that could not be
\* read, a file excluded by a pattern and a file under an ignored directory.
C1_Witness ==
  /\ pc = "returned"
  /\ ret = Nil
  /\ \E n \in Files(tree) : SinkCalled(n)
  /\ \E n \in Files(tree) : Eligible(n) /\ ~n.ok /\ ~SinkCalled(n)
  /\ \E n \in Files(tree) : ExtAllowed(n) /\ PatternMatched(n)
  /\ \E n \in Files(tree) : ExtAllowed(n) /\ UnderIgnored(n.names)

\* ---------------------------------------------------------------------- C2
\* C2: a directory with an ignored name is never descended into: no entry
\* beneath it is ever queued for a visit, no file beneath it reaches the
\* extension / pattern check, is pushed or is delivered.
C2_Pruning ==
  /\ \A k \in DOMAIN todo : ~UnderIgnored(todo[k])
  /\ \A n \in Files(tree) :
       UnderIgnored(n.names) =>
         /\ Paths[n.names] \notin checked
         /\ ~BagIn(Paths[n.names], pushed)
         /\ DeliveriesOf(Paths[n.names]) = 0

\* The scan has returned, it delivered something, and an ignored directory
\* holds a readable file that would otherwise be accepted.
C2_Witness ==
  /\ pc = "returned"
  /\ delivered # EmptyBag
  /\ \E n \in Files(tree) :
       /\ UnderIgnored(n.names)
       /\ ExtAllowed(n) /\ ~PatternMatched(n) /\ n.ok
       /\ Len(n.names) > 2

\* ---------------------------------------------------------------------- C3
\* C3: when ScanForAI (workerCount >= 1) has returned, the channel is empty,
\* every pushed path has been received, no worker is still reading or in
\* the callback, and every pushed path was delivered or its read failed.
C3_DrainedAtReturn ==
  pc = "returned" =>
    /\ pathsChan = <<>>
    /\ taken = pushed
    /\ \A w \in Workers : wpc[w] \notin {"read", "sink"}
    /\ \A p \in BagToSet(pushed) : DeliveriesOf(p) = 1 \/ ~Readable(p)

\* Returned after more pushes than workers, one of them unreadable.
C3_Witness ==
  /\ pc = "returned"
  /\ BagCardinality(pushed) > workerCount
  /\ \E p \in BagToSet(pushed) : ~Readable(p)
  /\ \E p \in BagToSet(pushed) : DeliveriesOf(p) = 1

\* ---------------------------------------------------------------------- C4
\* C4: once ScanForAI has returned, every worker goroutine has terminated
\* (none receiving, reading or in the callback), and while the call stays
\* returned no worker moves and no delivery is made.
AllWorkersDone ==
  /\ \A w \in Spawned : wpc[w] = "done"
  /\ wg = 0

C4_NoBackgroundWork ==
  /\ [](pc = "returned" => AllWorkersDone)
  /\ [][(pc = "returned" /\ pc' = "returned") =>
          UNCHANGED << wpc, taken, delivered >>]_vars

\* Returned from a scan in which every worker of a pool of two delivered.
C4_Witness ==
  /\ pc = "returned"
  /\ workerCount = 2
  /\ BagCardinality(delivered) >= 2
  /\ AllWorkersDone

\* ---------------------------------------------------------------------- C5
\* The scan run by one thread: the paths the walk pushes, in walk order,
\* and the FileContent values a single reader makes of them.
RECURSIVE SequentialWalk(_, _, _)
SequentialWalk(t, s, td) ==
  IF td = <<>> THEN <<>>
  ELSE LET names == Head(td)
           d     == Entry(t, names)
       IN  IF d.isDir
           THEN IF Name(names) \in s.IgnoredNames
                THEN SequentialWalk(t, s, Tail(td))
                ELSE IF d.ok
                THEN SequentialWalk(t, s, ReadDir(t, names) \o Tail(td))
                ELSE <<>>
           ELSE (IF ShouldInclude(s, Paths[names], Name(names))
                 THEN << Paths[names] >> ELSE <<>>)
                \o SequentialWalk(t, s, Tail(td))

SequentialScan(t, s) ==
  LET roots  == { n.names : n \in { m \in t : Len(m.names) = 1 } }
      paths  == IF roots = {} THEN <<>>
                ELSE SequentialWalk(t, s, << CHOOSE r \in roots : TRUE >>)
  IN  { [Path |-> paths[k], Content |-> ReadFile(t, paths[k]).bytes] :
          k \in { j \in DOMAIN paths : ReadFile(t, paths[j]).err = Nil } }

\* C5: the set of (path, content) pairs a completed scan delivered is the
\* one the sequential scan of the tree yields, whatever workerCount and
\* whatever the interleaving, and a second scan of the same tree delivers
\* the set the first one delivered.
C5_SameDeliveries ==
  pc = "returned" =>
    /\ BagToSet(delivered) = SequentialScan(tree, scanner)
    /\ second => BagToSet(delivered) = BagToSet(prev)

\* A second scan by two workers has returned with at least three deliveries.
C5_Witness ==
  /\ pc = "returned"
  /\ second
  /\ workerCount = 2
  /\ Cardinality(BagToSet(delivered)) >= 3
  /\ BagToSet(prev) = BagToSet(delivered)

\* ---------------------------------------------------------------------- C6
\* C6: a pushed path is received by one worker only and the callback is
\* invoked for it at most once; when the scan has returned each pushed path
\* has been received once and delivered once if readable, never otherwise.
C6_AtMostOnce ==
  /\ \A p \in BagToSet(pushed) \cup BagToSet(taken) :
       /\ CopiesIn(p, pushed) = 1
       /\ CopiesIn(p, taken) <= 1
       /\ Cardinality({ w \in Workers : wpath[w] = p }) <= 1
       /\ DeliveriesOf(p) <= CopiesIn(p, taken)
  /\ \A fc \in BagToSet(delivered) : BagIn(fc.Path, pushed)
  /\ pc = "returned" =>
       \A p \in BagToSet(pushed) :
         /\ CopiesIn(p, taken) = 1
         /\ DeliveriesOf(p) = IF Readable(p) THEN 1 ELSE 0

\* Two workers are both past a receive, each with its own path, while
\* another pushed path is still in the buffer.
C6_Witness ==
  /\ workerCount = 2
  /\ wpc[1] \in {"read", "sink"}
  /\ wpc[2] \in {"read", "sink"}
  /\ wpath[1] # wpath[2]
  /\ pathsChan # <<>>

\* ---------------------------------------------------------------------- C7
\* C7: a failed read is swallowed: the callback is never entered nor invoked
\* for a pushed file whose read fails, every pushed readable file is
\* delivered once by the time the scan returns, and the return value is the
\* walk's result alone (nil when the walk met no error).
C7_ReadFailureSwallowed ==
  /\ \A w \in Workers : wpc[w] = "sink" => Readable(wpath[w])
  /\ \A p \in BagToSet(pushed) : ~Readable(p) => DeliveriesOf(p) = 0
  /\ pc = "returned" =>
       /\ \A p \in BagToSet(pushed) : Readable(p) => DeliveriesOf(p) = 1
       /\ walkErrs = <<>> =>
            /\ ret = Nil
            /\ \A n \in Files(tree) : (Eligible(n) /\ n.ok) => SinkCalled(n)

\* A single worker met an unreadable first file, went on, and the scan
\* returned nil with the later files delivered.
C7_Witness ==
  /\ pc = "returned"
  /\ workerCount = 1
  /\ ret = Nil
  /\ \E n \in Files(tree) :
       /\ Len(n.names) = 2 /\ Name(n.names) = a_go
       /\ ~n.ok /\ BagIn(Paths[n.names], pushed)
  /\ BagCardinality(delivered) >= 2

\* ---------------------------------------------------------------------- C8
\* C8: ScanForAI returns nil iff WalkDir handed no error to its callback,
\* and otherwise the first such error; failed reads do not enter into it.
C8_ReturnValue ==
  pc = "returned" =>
    /\ ret = Nil <=> walkErrs = <<>>
    /\ walkErrs # <<>> => ret = walkErrs[1]

\* The walk failed on a directory after a file was pushed whose read failed:
\* the directory's error is returned.
C8_Witness ==
  /\ pc = "returned"
  /\ ret # Nil
  /\ ret.op = "readdir"
  /\ \E p \in BagToSet(pushed) : ~Readable(p)

\* ---------------------------------------------------------------------- C9
\* C9: when ScanForAI returns a walk-level error, the channel has been
\* closed and emptied, every worker has terminated, and every path pushed
\* before the error has been read and, if readable, delivered.
C9_ErrorAfterDrain ==
  (pc = "returned" /\ ret # Nil) =>
    /\ closed
    /\ pathsChan = <<>>
    /\ \A w \in Spawned : wpc[w] = "done"
    /\ \A p \in BagToSet(pushed) :
         /\ BagIn(p, taken)
         /\ Readable(p) => DeliveriesOf(p) = 1

\* An error was returned after two files had been pushed and delivered.
C9_Witness ==
  /\ pc = "returned"
  /\ ret # Nil
  /\ BagCardinality(delivered) >= 2

\* --------------------------------------------------------------------- C10
\* C10: when the ignore file cannot be opened, NewScanner returns a scanner
\* without patterns and a nil error, and a scan that returns nil has
\* delivered exactly the readable files with an allowed extension and no
\* ignored ancestor.
C10_MissingIgnoreFile ==
  ~ignoreFile.open =>
    /\ scanner.Patterns = <<>>
    /\ newErr = Nil
    /\ (pc = "returned" /\ ret = Nil) =>
         \A n \in Files(tree) :
           SinkCalled(n) <=>
             (ExtAllowed(n) /\ ~UnderIgnored(n.names) /\ n.ok)

\* Without an ignore file a scan returned nil and delivered d.go, which a
\* pattern of the ignore files of the model would have excluded.
C10_Witness ==
  /\ ~ignoreFile.open
  /\ pc = "returned"
  /\ ret = Nil
  /\ \E n \in Files(tree) :
       SinkCalled(n) /\ Match(<<"d", ".", "*">>, Name(n.names))

\* --------------------------------------------------------------------- C11
\* C11: under fair scheduling of the calling goroutine and of the workers,
\* with a callback that returns, every scan with workerCount >= 1 returns,
\* and no state short of the return is a deadlock (a step of the scan is
\* possible in it); this holds also when the accepted files outnumber the
\* channel's capacity and when the walk ends with an error.
C11_Terminates ==
  /\ [](pc = "returned" \/ ENABLED ScanStep)
  /\ <>(pc = "returned")

\* A scan has returned after pushing more paths than the channel can hold.
C11_Witness ==
  /\ pc = "returned"
  /\ BagCardinality(pushed) > QueueCap
  /\ BagCardinality(delivered) = BagCardinality(pushed)

\* --------------------------------------------------------------------- C12
\* Accepted paths that are not finished: the one the walk is pushing, those
\* in the channel, and those a worker is reading or handing to the callback.
Unfinished ==
  (IF pc = "send" THEN 1 ELSE 0) + Len(pathsChan)
    + Cardinality({ w \in Workers : wpc[w] \in {"read", "sink"} })

\* C12: the paths pushed and not yet received are those in the channel and
\* never more than its capacity of 100, whatever the size of the tree; while
\* the channel is full the walk stays in its send, pushes nothing, and only a
\* worker's receive changes the channel; the accepted, unfinished paths
\* never exceed the capacity plus the number of workers plus one.
C12_Backpressure ==
  /\ [](Len(pathsChan) <= QueueCap)
  /\ [](BagCardinality(pushed) = BagCardinality(taken) + Len(pathsChan))
  /\ [](Unfinished <= QueueCap + Cardinality(Spawned) + 1)
  /\ []((pc = "send" /\ Len(pathsChan) = QueueCap) => ~ENABLED Send)
  /\ [][(pc = "send" /\ Len(pathsChan) = QueueCap) =>
          /\ pc' = "send" /\ sendPath' = sendPath /\ pushed' = pushed
          /\ pathsChan' # pathsChan =>
                \E w \in Workers : wpc[w] = "recv" /\ wpc'[w] = "read"]_vars

\* The walk is blocked on the full channel while the only worker is busy:
\* capacity + workerCount + 1 accepted paths are unfinished.
C12_Witness ==
  /\ pc = "send"
  /\ Len(pathsChan) = QueueCap
  /\ workerCount = 1
  /\ wpc[1] \in {"read", "sink"}
  /\ Unfinished = QueueCap + workerCount + 1

\* --------------------------------------------------------------------- C13
\* C13: the channel is closed once, by the calling goroutine when WalkDir
\* has returned (nothing left to visit, with or without an error), and stays
\* closed until the call returns; nothing is pushed onto the closed channel;
\* a worker terminates only from its receive on the closed and empty
\* channel, so no worker has terminated while the closed channel holds a
\* path; wg.Wait() returns only when every spawned worker has terminated.
C13_ShutdownOrder ==
  /\ [][(~closed /\ closed') =>
          (pc = "walk" /\ todo = <<>> /\ pc' = "wait")]_vars
  /\ [][(closed /\ ~closed') => (pc = "returned" /\ pc' = "spawn")]_vars
  /\ [](closed => (pc \in {"wait", "returned"} /\ sendPath = <<>>))
  /\ [][(closed /\ closed') =>
          (pushed' = pushed /\ Len(pathsChan') <= Len(pathsChan))]_vars
  /\ [][\A w \in Workers :
          (wpc[w] # "done" /\ wpc'[w] = "done") =>
            (closed /\ pathsChan = <<>> /\ wpc[w] = "recv")]_vars
  /\ []((closed /\ pathsChan # <<>>) => \A w \in Spawned : wpc[w] # "done")
  /\ [][(pc = "wait" /\ pc' = "returned") =>
          \A w \in Spawned : wpc[w] = "done"]_vars

\* The walk ended with an error and closed the channel while it still held
\* a path, one of the two workers being busy with an earlier one.
C13_Witness ==
  /\ closed
  /\ err # Nil
  /\ pathsChan # <<>>
  /\ workerCount = 2
  /\ \E w \in Spawned : wpc[w] \in {"read", "sink"}
  /\ \A w \in Spawned : wpc[w] # "done"

\* --------------------------------------------------------------------- C14
\* The workers that are inside the callback.
InSink == { w \in Workers : wpc[w] = "sink" }

\* C14: at most workerCount invocations of the callback are in progress at
\* any time, all of them made by spawned workers, and ScanForAI does not
\* serialize them: a worker that has read its file enters the callback
\* whatever the other workers are doing.
C14_ConcurrentSinkCalls ==
  /\ Cardinality(InSink) <= workerCount
  /\ InSink \subseteq Spawned
  /\ \A w \in Workers : wpc[w] = "read" => ENABLED Read(w)

\* Two workers are inside the callback at the same time, each with its own
\* file.
C14_Witness ==
  /\ workerCount >= 2
  /\ Cardinality(InSink) = 2
  /\ \E v, w \in InSink : wpath[v] # wpath[w]

\* --------------------------------------------------------------------- C15
\* Some pattern matches the name of a directory above the entry.
DirMatched(n) ==
  \E a \in Ancestors(n.names) : \E k \in DOMAIN scanner.Patterns :
    Match(scanner.Patterns[k], Name(a))

\* Some pattern matches the whole path of the entry.
FullPathMatched(n) ==
  \E k \in DOMAIN scanner.Patterns :
    Match(scanner.Patterns[k], Paths[n.names])

Reverse(seq) == [k \in 1..Len(seq) |-> seq[Len(seq) + 1 - k]]

\* C15: a file whose base name matches any pattern is never pushed nor
\* delivered, in whatever order the patterns stand; patterns do not prune:
\* when the scan has returned nil every file outside the ignored
\* directories has reached the file check, and every readable file with an
\* allowed extension whose base name matches no pattern has been delivered,
\* also when a pattern matches a directory above it or its whole path.
C15_GlobOnBaseNameOfFiles ==
  /\ \A n \in Files(tree) :
       /\ PatternMatched(n) =>
            /\ ~BagIn(Paths[n.names], pushed)
            /\ DeliveriesOf(Paths[n.names]) = 0
       /\ ShouldInclude(scanner, Paths[n.names], Name(n.names))
            = ShouldInclude([scanner EXCEPT !.Patterns = Reverse(@)],
                            Paths[n.names], Name(n.names))
  /\ (pc = "returned" /\ ret = Nil) =>
       \A n \in Files(tree) :
         ~UnderIgnored(n.names) =>
           /\ Paths[n.names] \in checked
           /\ (ExtAllowed(n) /\ ~PatternMatched(n) /\ n.ok) => SinkCalled(n)

\* A scan returned nil having delivered a file beneath a directory whose
\* name matches a pattern and a file whose whole path matches a pattern,
\* and having left out a file that only a later pattern matches.
C15_Witness ==
  /\ pc = "returned"
  /\ ret = Nil
  /\ \E n \in Files(tree) : DirMatched(n) /\ SinkCalled(n)
  /\ \E n \in Files(tree) : FullPathMatched(n) /\ SinkCalled(n)
  /\ \E n \in Files(tree) :
       /\ ExtAllowed(n) /\ n.ok /\ ~UnderIgnored(n.names)
       /\ PatternMatched(n)
       /\ ~Match(scanner.Patterns[1], Name(n.names))
       /\ ~SinkCalled(n)

\* --------------------------------------------------------------------- C16
\* A line without its leading and trailing white space, stated on the
\* positions of its other characters.
Trimmed(line) ==
  LET inked == { k \in 1..Len(line) : line[k] \notin WhiteSpace }
  IN  IF inked = {} THEN <<>>
      ELSE SubSeq(line,
                  CHOOSE k \in inked :
                    \A j \in 1..(k - 1) : line[j] \in WhiteSpace,
                  CHOOSE k \in inked :
                    \A j \in (k + 1)..Len(line) : line[j] \in WhiteSpace)

IsPatternLine(line) == line # <<>> /\ line[1] # "#"

\* C16 as stated: the patterns are the lines of the ignore file that are
\* neither empty nor start with '#', unchanged and in file order.
C16_AsStated ==
  (pc = "made" /\ ignoreFile.open) =>
    scanner.Patterns = SelectSeq(ignoreFile.lines, IsPatternLine)

\* The lines of the ignore file in front of its first line of
\* MaxScanTokenSize bytes or more (all of them when it has none).
InFrontOfLong(lines) ==
  { k \in DOMAIN lines : \A j \in 1..k : Bytes(lines[j]) < MaxScanTokenSize }

\* C16 amended: the patterns are the lines of the ignore file in front of
\* its first line of MaxScanTokenSize bytes or more, with their leading and
\* trailing white space removed, those left empty or starting with '#'
\* after the removal dropped, in file order; that long line and the lines
\* behind it give no pattern.
C16_TrimmedLines ==
  pc = "made" =>
    scanner.Patterns =
      IF ignoreFile.open
      THEN SelectSeq([k \in 1..Cardinality(InFrontOfLong(ignoreFile.lines)) |->
                        Trimmed(ignoreFile.lines[k])], IsPatternLine)
      ELSE <<>>

\* NewScanner has read a comment behind white space other than a blank or
\* a tab and a pattern next to white space, and has stopped at a line of
\* MaxScanTokenSize bytes with a pattern line behind it: the first pattern
\* alone is kept, without the white space.
C16_Witness ==
  /\ pc = "made"
  /\ ignoreFile.open
  /\ \E k \in DOMAIN ignoreFile.lines :
       /\ Bytes(ignoreFile.lines[k]) >= MaxScanTokenSize
       /\ \E j \in (k + 1)..Len(ignoreFile.lines) :
            IsPatternLine(Trimmed(ignoreFile.lines[j]))
  /\ \E k \in DOMAIN ignoreFile.lines :
       /\ ignoreFile.lines[k] # <<>>
       /\ ignoreFile.lines[k][1] \in WhiteSpace \ { " ", "\t" }
       /\ Trimmed(ignoreFile.lines[k]) # <<>>
       /\ Trimmed(ignoreFile.lines[k])[1] = "#"
  /\ \E k \in DOMAIN ignoreFile.lines :
       /\ Trimmed(ignoreFile.lines[k]) # ignoreFile.lines[k]
       /\ IsPatternLine(Trimmed(ignoreFile.lines[k]))
       /\ scanner.Patterns = << Trimmed(ignoreFile.lines[k]) >>

\* --------------------------------------------------------------------- C17
\* C17: the first error WalkDir hands to the callback ends the walk there:
\* nothing is left to visit and there is no second error; from then on no
\* file reaches the file check and no path is pushed; a file the walk did
\* not reach is never delivered; every delivery is the path and content of
\* an accepted file of the tree.
C17_WalkErrorAborts ==
  /\ [](walkErrs # <<>> =>
         (todo = <<>> /\ pc # "send" /\ Len(walkErrs) = 1))
  /\ [][(walkErrs # <<>> /\ walkErrs' # <<>>) =>
          (pushed' = pushed /\ checked' = checked)]_vars
  /\ [](\A n \in Files(tree) :
          Paths[n.names] \notin checked => DeliveriesOf(Paths[n.names]) = 0)
  /\ [](\A fc \in BagToSet(delivered) :
          \E n \in Files(tree) : fc = FC(n) /\ Eligible(n))

\* ScanForAI returned the error of a subdirectory that could not be read,
\* after a delivery; an accepted readable file outside that subdirectory,
\* later in the walk, was not delivered.
C17_Witness ==
  /\ pc = "returned"
  /\ ret # Nil
  /\ ret.op = "readdir"
  /\ ret.path # scanner.Root
  /\ delivered # EmptyBag
  /\ \E n \in Files(tree) :
       /\ Eligible(n) /\ n.ok
       /\ ~HasPrefix(Paths[n.names], ret.path)
       /\ ~SinkCalled(n)

\* --------------------------------------------------------------------- C18
\* The paths a complete walk of the tree pushes, in order.
WalkPushes ==
  LET roots == { n.names : n \in { m \in tree : Len(m.names) = 1 } }
  IN  IF roots = {} THEN <<>>
      ELSE SequentialWalk(tree, scanner, << CHOOSE r \in roots : TRUE >>)

\* The walk is in the send of a path and the channel is full.
BlockedOnSend == pc = "send" /\ Len(pathsChan) = QueueCap

\* C18: with workerCount <= 0 no worker is ever started, nothing is received
\* and the callback is never invoked; the walk alone runs, and it can always
\* go on unless it is in the send of path number 101, where nothing can
\* happen any more; ScanForAI has returned only if the walk pushes at most
\* 100 paths, and then it returned the walk's result with every pushed path
\* still in the channel.
C18_NoWorkers ==
  workerCount <= 0 =>
    /\ i = 0 /\ wg = 0
    /\ \A w \in Workers : wpc[w] = "idle"
    /\ taken = EmptyBag /\ delivered = EmptyBag
    /\ BagCardinality(pushed) = Len(pathsChan)
    /\ BlockedOnSend =>
         (~ENABLED Next /\ BagCardinality(pushed) = QueueCap
            /\ Len(WalkPushes) > QueueCap)
    /\ (pc # "returned" /\ ~BlockedOnSend) => ENABLED WalkerStep
    /\ pc = "returned" =>
         /\ Len(WalkPushes) <= QueueCap
         /\ ret = err
         /\ ret = Nil <=> walkErrs = <<>>
         /\ pathsChan = WalkPushes

\* Without workers the walk has filled the channel and is in the send of
\* path number 101: no step is possible.
C18_Witness ==
  /\ workerCount <= 0
  /\ BlockedOnSend
  /\ BagCardinality(pushed) = QueueCap
  /\ sendPath = WalkPushes[QueueCap + 1]
  /\ ~ENABLED Next

\* Without workers ScanForAI has returned an error, two paths left unread.
C18_ReturnedUnread ==
  /\ workerCount <= 0
  /\ pc = "returned"
  /\ ret # Nil
  /\ Len(pathsChan) = 2

\* --------------------------------------------------------------------- C19
\* The workers between mu.Lock() and mu.Unlock().
Writers == { w \in Workers : wpc[w] \in {"head", "body", "unlock"} }

\* The workers inside process after the addition to fileCount.
Counted == { w \in Workers : wpc[w] \in {"lock", "head", "body", "unlock"} }

\* Every header in the builder is followed at once by the content of the
\* same file (or is the last piece, its writer about to write the content),
\* and every content follows its header.
Contiguous ==
  \A k \in DOMAIN builder :
    IF builder[k].part = "head"
    THEN IF k < Len(builder)
         THEN builder[k + 1] = [part |-> "body", fc |-> builder[k].fc]
         ELSE \E w \in Workers :
                wpc[w] = "body" /\ mu = w /\ builder[k].fc = Arg(w)
    ELSE k > 1 /\ builder[k - 1] = [part |-> "head", fc |-> builder[k].fc]

\* Number of blocks of a file content in a builder value.
BlocksOf(fc, b) ==
  Cardinality({ k \in DOMAIN b : b[k] = [part |-> "head", fc |-> fc] })

\* C19: at most one worker is between Lock and Unlock, the holder of mu;
\* the blocks in the builder are contiguous; fileCount counts the finished
\* invocations of process and those past the addition; when ScanForAI has
\* returned the mutex is free, fileCount is the number of invocations and
\* of blocks, one block per delivered file; main reads the builder only
\* then, with every worker terminated, and reads all of it.
C19_ProcessSafe ==
  /\ Writers = IF mu = 0 THEN {} ELSE {mu}
  /\ Contiguous
  /\ fileCount = BagCardinality(delivered) + Cardinality(Counted)
  /\ pc \in {"returned", "context"} =>
       /\ mu = 0
       /\ fileCount = BagCardinality(delivered)
       /\ Len(builder) = 2 * fileCount
       /\ \A fc \in BagToSet(delivered) :
            BlocksOf(fc, builder) = CopiesIn(fc, delivered)
  /\ pc = "context" => (repoContext = builder /\ AllWorkersDone)
  /\ pc # "context" => repoContext = <<>>

\* main has read the builder after a scan by two workers that delivered
\* three files or more: three blocks or more, one per delivery.
C19_Witness ==
  /\ pc = "context"
  /\ workerCount = 2
  /\ fileCount >= 3
  /\ Len(repoContext) = 2 * fileCount

\* One worker is writing under the mutex while the other waits for it.
C19_Contention ==
  \E v, w \in Workers :
    /\ wpc[v] = "body"
    /\ wpc[w] = "lock"
    /\ fileCount = Len(builder) + 1

\* --------------------------------------------------------------------- C20
\* C20: AskAboutRepo sends on done once, after Chat has returned and
\* before it looks at Chat's error, so it has sent exactly once when it
\* returns, with an error or with nil; the parked send always completes;
\* playSpinner prints no frame after it has received the signal, and then
\* terminates for good.
C20_SpinnerHandshake ==
  /\ [](sent <= 1)
  /\ [](sent = 1 <=> apc \in {"check", "render", "returned"})
  /\ [](apc = "returned" =>
         (sent = 1 /\ stopped /\ askRet = IF chatErr THEN "err" ELSE "nil"))
  /\ [](stopped => spc \in {"clear", "done"})
  /\ [][stopped => frame' = frame]_vars
  /\ [][spc = "done" => spc' = "done"]_vars
  /\ (apc = "sending") ~> (sent = 1)
  /\ stopped ~> (spc = "done")

\* Chat failed after three frames: the signal was sent all the same, the
\* spinner has terminated and AskAboutRepo has returned the error.
C20_Witness ==
  /\ apc = "returned"
  /\ askRet = "err"
  /\ sent = 1
  /\ spc = "done"
  /\ frame = 3

====
